---- MODULE Spec2Model ----
(***************************************************************************)
(* A model of GoogleCarouselParser (src/google_carousel_parser.py).        *)
(*                                                                         *)
(* Strings.  A Python str is the record [h |-> <<c1, ..., ck>>, n |-> m]:  *)
(* the characters c1..ck followed by m copies of "A" (the base64 payload   *)
(* of an inline image, which is hundreds of characters long).  None is the *)
(* record with n = -1.  Every string operator below is the Python operator *)
(* computed on that representation, character by character.                *)
(***************************************************************************)
EXTENDS Integers, Sequences, FiniteSets, TLC

VARIABLES
    pc,         \* position of the call under study
    doc,        \* parse_html: the input page (markup of its elements, in document order)
    container,  \* parse_html: index in doc of the located container, 0 for None
    idx,        \* parse_html: index of the next anchor of container.find_all("a", href=True)
    artworks,   \* parse_html: the list being built
    origin,     \* for each element of artworks, the position of its anchor in the container
    diag,       \* what parse_html has written to standard output
    calls,      \* the find_best_thumbnail calls made so far, with the tiers each consulted
    url, vres,  \* is_valid_data_url: argument and result
    node, year, \* extract_year_from_node: argument and result
    html,       \* the raw page text: the argument of parse_html and of the searches in it
    title, closest  \* find_closest_data_image: second argument and result

vars == <<pc, doc, container, idx, artworks, origin, diag, calls,
          url, vres, node, year, html, title, closest>>

----------------------------------------------------------------------------
(* str *)

Str(h, n) == [h |-> h, n |-> n]
Lit(h) == [h |-> h, n |-> 0]
None == [h |-> <<>>, n |-> -1]
EmptyStr == Lit(<<>>)

IsNone(s) == s.n = -1

\* len(s)
StrLen(s) == Len(s.h) + s.n

\* s[k-1]
CharAt(s, k) == IF k <= Len(s.h) THEN s.h[k] ELSE "A"

\* bool(s) for s a str or None
Truthy(s) == ~IsNone(s) /\ StrLen(s) > 0

\* a or b
Or(a, b) == IF Truthy(a) THEN a ELSE b

\* s.startswith(p), p a tuple of characters
StartsWith(s, p) ==
    /\ StrLen(s) >= Len(p)
    /\ \A k \in 1..Len(p) : CharAt(s, k) = p[k]

Whitespace == {" ", "\n", "\t"}

RECURSIVE LStrip(_)
LStrip(h) ==
    IF h # <<>> /\ Head(h) \in Whitespace THEN LStrip(Tail(h)) ELSE h

RECURSIVE RStrip(_)
RStrip(h) ==
    IF h # <<>> /\ h[Len(h)] \in Whitespace
    THEN RStrip(SubSeq(h, 1, Len(h) - 1))
    ELSE h

\* s.strip()
Strip(s) ==
    IF s.n > 0 THEN Str(LStrip(s.h), s.n) ELSE Lit(RStrip(LStrip(s.h)))

----------------------------------------------------------------------------
(* is_valid_data_url *)

B64 == <<";", "b", "a", "s", "e", "6", "4", ",">>
DATA_IMAGE == <<"d", "a", "t", "a", ":", "i", "m", "a", "g", "e", "/">>
GIF == <<"g", "i", "f">>
JPEG == <<"j", "p", "e", "g">>
JPG == <<"j", "p", "g">>
PNG == <<"p", "n", "g">>
WEBP == <<"w", "e", "b", "p">>
PLACEHOLDER ==
    DATA_IMAGE \o GIF \o B64
        \o <<"R", "0", "l", "G", "O", "D", "l", "h", "A", "Q", "A", "B", "A">>

\* the length test admits 500
is_valid_data_url_len_ge(u) ==
    IF ~StartsWith(u, DATA_IMAGE) THEN FALSE
    ELSE IF StartsWith(u, PLACEHOLDER) THEN FALSE
    ELSE StrLen(u) >= 500

is_valid_data_url(u) ==
    IF ~StartsWith(u, DATA_IMAGE) THEN FALSE
    ELSE IF StartsWith(u, PLACEHOLDER) THEN FALSE
    ELSE StrLen(u) > 500

----------------------------------------------------------------------------
(* Inputs of is_valid_data_url: a head followed by a run of "A" whose      *)
(* length puts the whole string just below, at or just above 500.          *)

MaxOver == 3

UrlHeads ==
    { <<>>,
      DATA_IMAGE,
      DATA_IMAGE \o JPEG \o B64,
      DATA_IMAGE \o PNG \o B64,
      DATA_IMAGE \o GIF \o B64,
      PLACEHOLDER,
      PLACEHOLDER \o <<"g">>,
      DATA_IMAGE \o GIF \o B64
          \o <<"R", "0", "l", "G", "O", "D", "l", "h", "A", "Q", "A", "B", "B">>,
      <<"d", "a", "t", "a", ":", "i", "m", "a", "g", "e">>,
      <<"D", "a", "t", "a", ":", "i", "m", "a", "g", "e", "/">>,
      <<"d", "a", "t", "a", ":", "t", "e", "x", "t", "/">>,
      <<" ">> \o DATA_IMAGE }

UrlInputs ==
    { Str(h, n) : h \in UrlHeads, n \in 0..1 }
        \cup { Str(h, 500 - Len(h) + d) : h \in UrlHeads, d \in (0 - MaxOver)..MaxOver }

Idle ==
    /\ doc = <<>> /\ container = 0 /\ idx = 0 /\ artworks = <<>> /\ origin = <<>>
    /\ diag = <<>> /\ calls = <<>>

InitValid ==
    /\ pc = "valid_call"
    /\ url \in UrlInputs
    /\ vres = FALSE
    /\ Idle
    /\ node = None /\ year = None /\ html = <<>> /\ title = None /\ closest = None

IsValidDataUrl ==
    /\ pc = "valid_call"
    /\ vres' = is_valid_data_url(url)
    /\ pc' = "valid_ret"
    /\ UNCHANGED <<doc, container, idx, artworks, origin, diag, calls,
                   url, node, year, html, title, closest>>

NextValid == IsValidDataUrl

SpecValid == InitValid /\ [][NextValid]_vars

(* C3: is_valid_data_url(url) is true exactly when url begins with          *)
(* data:image/, does not begin with the 1x1 GIF placeholder prefix, and is *)
(* longer than 500 characters; so a string of 500 characters or fewer is   *)
(* rejected whatever its prefix, and a string with the placeholder prefix  *)
(* is rejected whatever its length.                                        *)
C3_ValidExactly ==
    pc = "valid_ret" =>
        /\ vres = ( /\ StartsWith(url, DATA_IMAGE)
                    /\ ~StartsWith(url, PLACEHOLDER)
                    /\ StrLen(url) > 500 )
        /\ (StrLen(url) <= 500 => vres = FALSE)
        /\ (StartsWith(url, PLACEHOLDER) => vres = FALSE)

\* a data:image/ string of exactly 500 characters has been rejected
C3_Witness ==
    /\ pc = "valid_ret"
    /\ StartsWith(url, DATA_IMAGE) /\ ~StartsWith(url, PLACEHOLDER)
    /\ StrLen(url) = 500
    /\ vres = FALSE

----------------------------------------------------------------------------
(* extract_year_from_node.  A node is an anchor element:                   *)
(*   href, aria : the attribute values (None when the attribute is absent) *)
(*   text       : node.get_text(" ", strip=True)                           *)
(*   img        : node.find("img"): present, and its alt, src, id          *)

NoImg == [present |-> FALSE, alt |-> None, src |-> None, id |-> None]
Img(alt, src, id) == [present |-> TRUE, alt |-> alt, src |-> src, id |-> id]
Anchor(href, aria, text, img) ==
    [href |-> href, aria |-> aria, text |-> text, img |-> img]

\* the characters of s, written out
Chars(s) == s.h \o [k \in 1..s.n |-> "A"]

\* tag.get(key, default)
Get(attr, default) == IF IsNone(attr) THEN default ELSE attr

Digit == {"0", "1", "2", "3", "4", "5", "6", "7", "8", "9"}

\* the pattern without its lookahead
YearMatchAt_no_lookahead(t, i) ==
    /\ (i = 1 \/ t[i - 1] \notin Digit)
    /\ i + 3 <= Len(t)
    /\ \/ t[i] = "1" /\ t[i + 1] \in {"5", "6", "7", "8", "9"}
            /\ t[i + 2] \in Digit /\ t[i + 3] \in Digit
       \/ t[i] = "2" /\ t[i + 1] = "0"
            /\ t[i + 2] \in Digit /\ t[i + 3] \in Digit

\* (?<!\d)(1[5-9]\d{2}|20\d{2})(?!\d) matches t at position i
YearMatchAt(t, i) ==
    /\ (i = 1 \/ t[i - 1] \notin Digit)
    /\ i + 3 <= Len(t)
    /\ \/ t[i] = "1" /\ t[i + 1] \in {"5", "6", "7", "8", "9"}
            /\ t[i + 2] \in Digit /\ t[i + 3] \in Digit
       \/ t[i] = "2" /\ t[i + 1] = "0"
            /\ t[i + 2] \in Digit /\ t[i + 3] \in Digit
    /\ (i + 4 > Len(t) \/ t[i + 4] \notin Digit)

\* re.search(pattern, t), scanning from position i: group(1) of the leftmost
\* match, None when there is none
RECURSIVE YearSearch(_, _)
YearSearch(t, i) ==
    IF i > Len(t) THEN None
    ELSE IF YearMatchAt(t, i) THEN Lit(SubSeq(t, i, i + 3))
    ELSE YearSearch(t, i + 1)

\* " ".join([get_text, aria-label, alt])
YearText(n) ==
    Chars(n.text) \o <<" ">> \o Chars(Get(n.aria, EmptyStr)) \o <<" ">>
        \o Chars(IF n.img.present THEN Get(n.img.alt, EmptyStr) ELSE EmptyStr)

extract_year_from_node(n) == YearSearch(YearText(n), 1)

\* [year] if year else []
Extensions(y) == IF Truthy(y) THEN <<y>> ELSE <<>>

----------------------------------------------------------------------------
(* Inputs of extract_year_from_node: every visible text of at most         *)
(* MaxText characters over YearAlphabet, with and without a label and an   *)
(* image alt text that carry a year of their own.                          *)

MaxText == 5

YearAlphabet == {"1", "2", "0", "9", " "}

RECURSIVE Words(_, _)
Words(alphabet, n) ==
    IF n = 0 THEN {<<>>}
    ELSE LET shorter == Words(alphabet, n - 1)
         IN  shorter \cup { Append(w, c) : w \in { v \in shorter : Len(v) = n - 1 },
                                            c \in alphabet }

YearNodes ==
    { Anchor(None, aria, Lit(t), img) :
        t \in Words(YearAlphabet, MaxText),
        aria \in { None, Lit(<<"1", "9", "9", "9">>) },
        img \in { NoImg,
                  Img(None, None, None),
                  Img(Lit(<<"2", "0", "0", "1", "0">>), None, None) } }

InitYear ==
    /\ pc = "year_call"
    /\ node \in YearNodes
    /\ year = None
    /\ Idle
    /\ url = None /\ vres = FALSE /\ html = <<>> /\ title = None /\ closest = None

ExtractYear ==
    /\ pc = "year_call"
    /\ year' = extract_year_from_node(node)
    /\ pc' = "year_ret"
    /\ UNCHANGED <<doc, container, idx, artworks, origin, diag, calls,
                   url, vres, node, html, title, closest>>

NextYear == ExtractYear

SpecYear == InitYear /\ [][NextYear]_vars

\* the value of a decimal digit
DigitVal(c) ==
    CASE c = "0" -> 0 [] c = "1" -> 1 [] c = "2" -> 2 [] c = "3" -> 3 [] c = "4" -> 4
      [] c = "5" -> 5 [] c = "6" -> 6 [] c = "7" -> 7 [] c = "8" -> 8 [] c = "9" -> 9

\* positions of t where four digits stand that no digit precedes or follows
\* and whose value is a year from 1500 to 2099
YearRuns(t) ==
    { i \in 1..(Len(t) - 3) :
        /\ \A k \in 0..3 : t[i + k] \in Digit
        /\ (i > 1 => t[i - 1] \notin Digit)
        /\ (i + 4 <= Len(t) => t[i + 4] \notin Digit)
        /\ LET v == 1000 * DigitVal(t[i]) + 100 * DigitVal(t[i + 1])
                      + 10 * DigitVal(t[i + 2]) + DigitVal(t[i + 3])
           IN  v >= 1500 /\ v <= 2099 }

FirstOf(S) == CHOOSE i \in S : \A j \in S : i <= j

(* C2: extensions is the empty list or a list of one 4-digit year in       *)
(* 1500..2099; that year is the first 4-digit run in range, not adjacent   *)
(* to another digit, in the anchor's visible text, aria-label and image    *)
(* alt text joined, and extensions is empty exactly when there is no such  *)
(* run.                                                                    *)
C2_ExtensionsFirstYear ==
    pc = "year_ret" =>
        LET t == YearText(node)
            runs == YearRuns(t)
            ext == Extensions(year)
        IN  /\ Len(ext) <= 1
            /\ (ext = <<>>) = (runs = {})
            /\ runs # {} =>
                 /\ ext[1] = Lit(SubSeq(t, FirstOf(runs), FirstOf(runs) + 3))
                 /\ YearRuns(ext[1].h) = {1}

\* the visible text is a run of five digits, which is skipped, and the year
\* comes from the label that follows it
C2_Witness ==
    /\ pc = "year_ret"
    /\ node.text = Lit(<<"1", "9", "2", "0", "0">>)
    /\ node.aria = Lit(<<"1", "9", "9", "9">>)
    /\ Extensions(year) = <<Lit(<<"1", "9", "9", "9">>)>>

----------------------------------------------------------------------------
(* The raw page text.  html is a sequence of pieces, in text order; a      *)
(* piece is a value s (an attribute value, a text node, the string literal *)
(* of an inline script) with the pre characters of tag or script syntax in *)
(* front of it and the post characters behind it.  A piece with id other   *)
(* than None is the inline script  var s='<s>';var ii=['<id>'];            *)
(* Offsets are character offsets into the text, from 0, as re reports      *)
(* them.  Names and image data do not occur inside tag or script syntax,   *)
(* so every match of the module's patterns lies inside one value s.        *)

Piece(pre, s, post) == [pre |-> pre, s |-> s, post |-> post, id |-> None]
Script(s, id) == [pre |-> 7, s |-> s, post |-> 14 + StrLen(id), id |-> id]

PieceLen(p) == p.pre + StrLen(p.s) + p.post

\* the offset in the text of the first character of the value of piece k
RECURSIVE ValueOffset(_, _)
ValueOffset(h, k) ==
    IF k = 1 THEN h[1].pre
    ELSE ValueOffset(h, k - 1) + StrLen(h[k - 1].s) + h[k - 1].post + h[k].pre

UPPER == <<"A", "B", "C", "D", "E", "F", "G", "H", "I", "J", "K", "L", "M",
           "N", "O", "P", "Q", "R", "S", "T", "U", "V", "W", "X", "Y", "Z">>
LOWER == <<"a", "b", "c", "d", "e", "f", "g", "h", "i", "j", "k", "l", "m",
           "n", "o", "p", "q", "r", "s", "t", "u", "v", "w", "x", "y", "z">>

LowerOf ==
    [c \in {UPPER[k] : k \in 1..26} |-> LOWER[CHOOSE k \in 1..26 : UPPER[k] = c]]

\* c.lower()
Lower(c) == IF c \in DOMAIN LowerOf THEN LowerOf[c] ELSE c

LowerAll(t) == [k \in 1..Len(t) |-> Lower(t[k])]

Min(a, b) == IF a <= b THEN a ELSE b
Abs(x) == IF x < 0 THEN 0 - x ELSE x

\* the literal t occurs in s at position i, letter case ignored
TitleAt(s, t, i) ==
    /\ i + Len(t) - 1 <= StrLen(s)
    /\ \A k \in 1..Len(t) : Lower(CharAt(s, i + k - 1)) = Lower(t[k])

\* the starts (from 1) of the successive non-overlapping matches of
\* re.escape(t), re.IGNORECASE in s: of the positions where t occurs, those
\* from i on that the scan reaches
TitleStarts(s, t, i) ==
    LET occ == { j \in 1..Min(Len(s.h) + 1, StrLen(s) - Len(t) + 1) : TitleAt(s, t, j) }
        RECURSIVE Scan(_)
        Scan(from) ==
            LET rest == { j \in occ : j >= from }
            IN  IF rest = {} THEN <<>>
                ELSE LET j == CHOOSE x \in rest : \A y \in rest : x <= y
                     IN  <<j>> \o Scan(j + Len(t))
    IN  Scan(i)

\* [m.start() for m in re.finditer(re.escape(title), html, re.IGNORECASE)],
\* for the pieces from k on
RECURSIVE TitlePositions(_, _, _)
TitlePositions(h, t, k) ==
    IF k > Len(h) THEN <<>>
    ELSE LET here == TitleStarts(h[k].s, t, 1)
         IN  [j \in 1..Len(here) |-> ValueOffset(h, k) + here[j] - 1]
                 \o TitlePositions(h, t, k + 1)

Base64Chars ==
    {UPPER[k] : k \in 1..26} \cup {LOWER[k] : k \in 1..26} \cup Digit \cup {"+", "/", "="}

DataPrefixes == { DATA_IMAGE \o f \o B64 : f \in {JPEG, JPG, PNG, WEBP} }

\* the characters p stand in s from position i
LiteralAt(s, p, i) ==
    /\ i + Len(p) - 1 <= StrLen(s)
    /\ \A k \in 1..Len(p) : CharAt(s, i + k - 1) = p[k]

\* the last position of the run of [A-Za-z0-9+/=] that starts at position j
RECURSIVE RunEnd(_, _)
RunEnd(s, j) ==
    IF j > Len(s.h) THEN StrLen(s)
    ELSE IF s.h[j] \in Base64Chars THEN RunEnd(s, j + 1)
    ELSE j - 1

\* s[i-1 : e]
Slice(s, i, e) ==
    IF e > Len(s.h) THEN Str(SubSeq(s.h, i, Len(s.h)), s.n)
    ELSE Lit(SubSeq(s.h, i, e))

\* the matches of data:image/(?:jpeg|jpg|png|webp);base64,[A-Za-z0-9+/=]+
\* in s, scanning from position i: their starts and their texts (the scan
\* ends where data:image/ no longer fits in the characters before the run
\* of "A")
RECURSIVE DataMatches(_, _)
DataMatches(s, i) ==
    IF i + Len(DATA_IMAGE) > Len(s.h) THEN <<>>
    ELSE LET ps == { p \in DataPrefixes :
                        /\ LiteralAt(s, p, i)
                        /\ i + Len(p) <= StrLen(s)
                        /\ CharAt(s, i + Len(p)) \in Base64Chars }
         IN  IF ps = {} THEN DataMatches(s, i + 1)
             ELSE LET p == CHOOSE q \in ps : TRUE
                      e == RunEnd(s, i + Len(p))
                  IN  <<[at |-> i, text |-> Slice(s, i, e)]>> \o DataMatches(s, e + 1)

\* [(m.start(), m.group(0)) for m in re.finditer(...) if is_valid_data_url(m.group(0))],
\* for the pieces from k on
RECURSIVE DataUrls(_, _)
DataUrls(h, k) ==
    IF k > Len(h) THEN <<>>
    ELSE LET here == DataMatches(h[k].s, 1)
             found == [m \in 1..Len(here) |->
                         [pos |-> ValueOffset(h, k) + here[m].at - 1,
                          text |-> here[m].text]]
         IN  SelectSeq(found, LAMBDA x : is_valid_data_url(x.text))
                 \o DataUrls(h, k + 1)

\* min(xs, key=lambda x: abs(x[0] - anchor)): the first element of xs whose
\* key is the least
MinByDistance(xs, anchor) ==
    LET RECURSIVE Best(_, _)
        Best(j, b) ==
            IF j > Len(xs) THEN b
            ELSE IF Abs(xs[j].pos - anchor) < Abs(b.pos - anchor)
                 THEN Best(j + 1, xs[j])
                 ELSE Best(j + 1, b)
    IN  Best(2, xs[1])

\* title_positions[-1]
TitleAnchor_last(positions) == positions[Len(positions)]

\* title_positions[0]
TitleAnchor(positions) == positions[1]

find_closest_data_image(h, t) ==
    IF ~Truthy(t) THEN None
    ELSE LET title_positions == TitlePositions(h, Chars(t), 1)
         IN  IF title_positions = <<>> THEN None
             ELSE LET data_urls == DataUrls(h, 1)
                  IN  IF data_urls = <<>> THEN None
                      ELSE MinByDistance(data_urls, TitleAnchor(title_positions)).text

----------------------------------------------------------------------------
(* Inputs of find_closest_data_image: every text of at most MaxPieces      *)
(* pieces out of ClosestPieces, and a title that occurs in some of them,   *)
(* in none of them, or is empty.                                           *)

MaxPieces == 4

IRIS == <<"I", "r", "i", "s">>
ROSE == <<"R", "o", "s", "e">>

Jpeg(n) == Str(DATA_IMAGE \o JPEG \o B64, n)
Png(n) == Str(DATA_IMAGE \o PNG \o B64, n)
Gif(n) == Str(DATA_IMAGE \o GIF \o B64, n)

ClosestPieces ==
    { Piece(1, Lit(IRIS), 1),
      Piece(40, Lit(<<"a", "n", " ", "I", "R", "I", "S", ".">>), 300),
      Piece(10, Jpeg(600), 2),
      Piece(10, Png(700), 2),
      Piece(10, Jpeg(100), 2),
      Piece(10, Gif(600), 2) }

ClosestTitles == { EmptyStr, Lit(IRIS), Lit(ROSE) }

InitClosest ==
    /\ pc = "closest_call"
    /\ html \in Words(ClosestPieces, MaxPieces)
    /\ title \in ClosestTitles
    /\ closest = None
    /\ Idle
    /\ url = None /\ vres = FALSE /\ node = None /\ year = None

FindClosestDataImage ==
    /\ pc = "closest_call"
    /\ closest' = find_closest_data_image(html, title)
    /\ pc' = "closest_ret"
    /\ UNCHANGED <<doc, container, idx, artworks, origin, diag, calls,
                   url, vres, node, year, html, title>>

NextClosest == FindClosestDataImage

SpecClosest == InitClosest /\ [][NextClosest]_vars

\* the offsets at which the title occurs in the text, letter case ignored
TitleOccurrences(h, t) ==
    UNION { { ValueOffset(h, k) + i - 1 : i \in { j \in 1..(Len(h[k].s.h) + 1) :
                                                   TitleAt(h[k].s, t, j) } } :
            k \in 1..Len(h) }

\* the base64 image data-URI occurrences of the text that pass validation
ValidOccurrences(h) ==
    UNION { { [pos |-> ValueOffset(h, k) + m.at - 1, text |-> m.text] :
                m \in { x \in { DataMatches(h[k].s, 1)[j] :
                                  j \in 1..Len(DataMatches(h[k].s, 1)) } :
                          /\ StartsWith(x.text, DATA_IMAGE)
                          /\ ~StartsWith(x.text, PLACEHOLDER)
                          /\ StrLen(x.text) > 500 } } :
            k \in 1..Len(h) }

(* C5: find_closest_data_image returns, among the data-URI occurrences     *)
(* that pass validation, one whose start offset is at the least absolute   *)
(* distance from the first occurrence of the title (letter case ignored);  *)
(* later occurrences of the title do not matter.  It returns None when the *)
(* title is empty, when the title does not occur, and when no valid        *)
(* data-URI occurs; and only then.                                         *)
C5_ClosestToFirstTitle ==
    pc = "closest_ret" =>
        LET occ == TitleOccurrences(html, Chars(title))
            valid == ValidOccurrences(html)
        IN  IF StrLen(title) = 0 \/ occ = {} \/ valid = {}
            THEN closest = None
            ELSE LET first == FirstOf(occ)
                 IN  \E v \in valid :
                        /\ closest = v.text
                        /\ \A w \in valid : Abs(v.pos - first) <= Abs(w.pos - first)

\* the title occurs twice, a valid data-URI stands right after its first
\* occurrence and a different one right after its second, and the one next
\* to the first occurrence is returned
C5_Witness ==
    /\ pc = "closest_ret"
    /\ title = Lit(IRIS)
    /\ html = << Piece(1, Lit(IRIS), 1),
                 Piece(10, Jpeg(600), 2),
                 Piece(40, Lit(<<"a", "n", " ", "I", "R", "I", "S", ".">>), 300),
                 Piece(10, Png(700), 2) >>
    /\ closest = Jpeg(600)

----------------------------------------------------------------------------
(* decode_thumbnail_from_script *)

\* a character outside ASCII (U+00E9), on which bytes(s, "ascii") raises
NonAscii == {"U+00E9"}

HexDigits == Digit \cup {"a", "b", "c", "d", "e", "f"}

\* the character \xHH stands for; the pages studied escape = and &
HexChar(a, b) ==
    CASE a = "3" /\ b = "d" -> "="
      [] a = "2" /\ b = "6" -> "&"
      [] a = "e" /\ b = "9" -> "U+00E9"

\* bytes(h, "ascii").decode("unicode_escape") on the characters h, which
\* more characters "A" follow when more is true: ok is false when it raises.
\* The escapes of the pages studied are \\ and \xHH.
RECURSIVE UnicodeEscape(_, _)
UnicodeEscape(h, more) ==
    IF h = <<>> THEN [ok |-> TRUE, v |-> <<>>]
    ELSE IF h[1] \in NonAscii THEN [ok |-> FALSE, v |-> <<>>]
    ELSE IF h[1] # "\\"
    THEN LET r == UnicodeEscape(Tail(h), more)
         IN  [ok |-> r.ok, v |-> <<h[1]>> \o r.v]
    ELSE IF Len(h) = 1 THEN [ok |-> more, v |-> h]
    ELSE CASE h[2] = "\\" ->
                LET r == UnicodeEscape(SubSeq(h, 3, Len(h)), more)
                IN  [ok |-> r.ok, v |-> <<"\\">> \o r.v]
           [] h[2] = "x" ->
                IF Len(h) >= 4 /\ h[3] \in HexDigits /\ h[4] \in HexDigits
                THEN LET r == UnicodeEscape(SubSeq(h, 5, Len(h)), more)
                     IN  [ok |-> r.ok, v |-> <<HexChar(h[3], h[4])>> \o r.v]
                ELSE [ok |-> FALSE, v |-> <<>>]

\* the try block of decode_thumbnail_from_script: two passes of unescaping,
\* and raw itself when either raises
Unescape(raw) ==
    LET a == UnicodeEscape(raw.h, raw.n > 0)
    IN  IF ~a.ok THEN raw
        ELSE LET b == UnicodeEscape(a.v, raw.n > 0)
             IN  IF ~b.ok THEN raw ELSE Str(b.v, raw.n)

\* piece p is matched by the pattern of decode_thumbnail_from_script for img_id
\* (re.IGNORECASE): var s = '<data:image/[^']+>'; var ii = ['<img_id>'];
ScriptMatches(p, img_id) ==
    /\ ~IsNone(p.id)
    /\ LowerAll(Chars(p.id)) = LowerAll(Chars(img_id))
    /\ TitleAt(p.s, DATA_IMAGE, 1)
    /\ StrLen(p.s) > Len(DATA_IMAGE)

\* the unescaped text is returned without validation
decode_thumbnail_from_script_unvalidated(h, img_id) ==
    LET ms == { k \in 1..Len(h) : ScriptMatches(h[k], img_id) }
    IN  IF ms = {} THEN None
        ELSE Unescape(h[FirstOf(ms)].s)

decode_thumbnail_from_script(h, img_id) ==
    LET ms == { k \in 1..Len(h) : ScriptMatches(h[k], img_id) }
    IN  IF ms = {} THEN None
        ELSE LET raw == h[FirstOf(ms)].s
                 unescaped == Unescape(raw)
             IN  IF is_valid_data_url(unescaped) THEN unescaped ELSE None

----------------------------------------------------------------------------
(* find_best_thumbnail: the image, and the tiers consulted on the way *)

\* a.get_text(strip=True), the last operand of the title, is never reached
\* from parse_html, which calls with a non-empty aria-label or alt
find_best_thumbnail(a, img, h) ==
    LET src == Strip(Or(img.src, EmptyStr))
        img_id == Strip(Or(img.id, EmptyStr))
        decoded == IF Truthy(img_id) THEN decode_thumbnail_from_script(h, img_id) ELSE None
        t == Strip(Or(Or(a.aria, img.alt), a.text))
    IN  IF is_valid_data_url(src) THEN [image |-> src, tiers |-> <<1>>]
        ELSE IF Truthy(img_id) /\ Truthy(decoded)
        THEN [image |-> decoded, tiers |-> <<1, 2>>]
        ELSE [image |-> find_closest_data_image(h, t),
              tiers |-> IF Truthy(img_id) THEN <<1, 2, 3>> ELSE <<1, 3>>]

----------------------------------------------------------------------------
(* make_absolute_url *)

GOOGLE_ORIGIN ==
    <<"h", "t", "t", "p", "s", ":", "/", "/", "w", "w", "w", ".",
      "g", "o", "o", "g", "l", "e", ".", "c", "o", "m">>
HTTP == <<"h", "t", "t", "p", ":", "/", "/">>
HTTPS == <<"h", "t", "t", "p", "s", ":", "/", "/">>

Returns(v) == [raises |-> FALSE, value |-> v]
Raises == [raises |-> TRUE, value |-> None]

\* the network location of //netloc/path: the characters after // up to the
\* next / ? or #
RECURSIVE Netloc(_)
Netloc(t) ==
    IF t = <<>> \/ Head(t) \in {"/", "?", "#"} THEN <<>>
    ELSE <<Head(t)>> \o Netloc(Tail(t))

Has(t, c) == \E k \in 1..Len(t) : t[k] = c

\* urllib.parse.urljoin(base, href) for a base of scheme https and empty
\* path, and an href with no scheme, query or fragment of its own.  urlsplit
\* raises ValueError("Invalid IPv6 URL") on a network location with one
\* square bracket and not the other.
urljoin(base, href) ==
    CASE StrLen(href) = 0 -> Returns(Lit(base))
      [] StartsWith(href, <<"/", "/">>) ->
            LET netloc == Netloc(SubSeq(Chars(href), 3, StrLen(href)))
            IN  IF Has(netloc, "[") # Has(netloc, "]") THEN Raises
                ELSE Returns(Str(<<"h", "t", "t", "p", "s", ":">> \o href.h, href.n))
      [] StartsWith(href, <<"/">>) /\ ~StartsWith(href, <<"/", "/">>) ->
            Returns(Str(base \o href.h, href.n))
      [] /\ StrLen(href) > 0 /\ ~StartsWith(href, <<"/">>)
         /\ \A c \in {":", "?", "#"} : ~Has(Chars(href), c) ->
            Returns(Str(base \o <<"/">> \o href.h, href.n))

make_absolute_url(href) ==
    IF StartsWith(href, HTTP) \/ StartsWith(href, HTTPS)
    THEN Returns(href)
    ELSE urljoin(GOOGLE_ORIGIN, href)

----------------------------------------------------------------------------
(* The page.  doc.body is the sequence of the page's elements that a       *)
(* container selector can match, in document order, each with the anchors  *)
(* of its subtree in document order; doc.tail is the text that follows     *)
(* them (inline scripts, other markup).  The html argument of parse_html   *)
(* is Render(doc), and doc.body is what BeautifulSoup makes of it.         *)

Element(tag, attrid, jscontroller, jsname, anchors) ==
    [tag |-> tag, attrid |-> attrid, jscontroller |-> jscontroller,
     jsname |-> jsname, anchors |-> anchors]

SeqIf(cond, x) == IF cond THEN <<x>> ELSE <<>>

RECURSIVE Flatten(_)
Flatten(ss) == IF ss = <<>> THEN <<>> ELSE Head(ss) \o Flatten(Tail(ss))

\* <a href=".." aria-label=".."><img id=".." alt=".." src="..">text</a>
RenderAnchor(a) ==
    SeqIf(~IsNone(a.href), Piece(9, a.href, 1))
    \o SeqIf(IsNone(a.href), Piece(2, EmptyStr, 0))
    \o SeqIf(~IsNone(a.aria), Piece(13, a.aria, 1))
    \o SeqIf(a.img.present, Piece(5, EmptyStr, 0))
    \o SeqIf(~IsNone(a.img.id), Piece(5, a.img.id, 1))
    \o SeqIf(~IsNone(a.img.alt), Piece(6, a.img.alt, 1))
    \o SeqIf(~IsNone(a.img.src), Piece(6, a.img.src, 1))
    \o << Piece(IF a.img.present THEN 2 ELSE 1, a.text, 4) >>

\* <tag data-attrid=".." jscontroller=".." jsname="..">anchors</tag>
RenderElement(e) ==
    LET taglen == IF e.tag = "div" THEN 3 ELSE 20
    IN  << Piece(1 + taglen, EmptyStr, 0) >>
        \o SeqIf(~IsNone(e.attrid), Piece(14, e.attrid, 1))
        \o SeqIf(~IsNone(e.jscontroller), Piece(15, e.jscontroller, 1))
        \o SeqIf(~IsNone(e.jsname), Piece(9, e.jsname, 1))
        \o Flatten([k \in 1..Len(e.anchors) |-> RenderAnchor(e.anchors[k])])
        \o << Piece(1, EmptyStr, 3 + taglen) >>

Render(d) ==
    Flatten([k \in 1..Len(d.body) |-> RenderElement(d.body[k])]) \o d.tail

----------------------------------------------------------------------------
(* The container selectors of parse_html *)

WORKS == <<":", "w", "o", "r", "k", "s">>
VISUAL_ARTIST_WORKS ==
    <<"v", "i", "s", "u", "a", "l", "_", "a", "r", "t", "i", "s", "t">> \o WORKS
ARTWORKS == <<"a", "r", "t", "w", "o", "r", "k", "s">>
HPVVWB == <<"H", "P", "V", "v", "w", "b">>
GZQ3KE == <<"G", "Z", "q", "3", "K", "e">>

\* [attr*='p']
AttrContains(attr, p) ==
    ~IsNone(attr) /\ \E i \in 1..(StrLen(attr) + 1) : LiteralAt(attr, p, i)

\* [attr='p']
AttrEquals(attr, p) == ~IsNone(attr) /\ Chars(attr) = p

\* element e matches the k-th selector of the chain
Selects(k, e) ==
    CASE k = 1 -> e.tag = "div" /\ AttrContains(e.attrid, WORKS)
      [] k = 2 -> e.tag = "div" /\ AttrContains(e.attrid, VISUAL_ARTIST_WORKS)
      [] k = 3 -> e.tag = "div" /\ AttrContains(e.attrid, ARTWORKS)
      [] k = 4 -> e.tag = "g-scrolling-carousel"
      [] k = 5 -> e.tag = "div" /\ AttrEquals(e.jscontroller, HPVVWB)
      [] k = 6 -> e.tag = "div" /\ AttrEquals(e.jsname, GZQ3KE)

\* soup.select_one(k-th selector): the first match in document order, 0 for None
select_one(body, k) ==
    LET ms == { i \in 1..Len(body) : Selects(k, body[i]) }
    IN  IF ms = {} THEN 0 ELSE FirstOf(ms)

\* the first element of the page that matches any selector
LocateContainer_document_order(body) ==
    LET ms == { i \in 1..Len(body) : \E k \in 1..6 : Selects(k, body[i]) }
    IN  IF ms = {} THEN 0 ELSE FirstOf(ms)

\* the first element of the page stands in when no selector matches
LocateContainer_fallback(body) ==
    LET ms == { i \in 1..Len(body) : \E k \in 1..6 : Selects(k, body[i]) }
    IN  IF ms = {} THEN Min(1, Len(body))
        ELSE LET k == FirstOf({ j \in 1..6 : select_one(body, j) # 0 })
             IN  select_one(body, k)

\* select_one(1) or select_one(2) or ... or select_one(6)
LocateContainer(body) ==
    LET RECURSIVE Try(_)
        Try(k) ==
            IF k > 6 THEN 0
            ELSE IF select_one(body, k) # 0 THEN select_one(body, k)
            ELSE Try(k + 1)
    IN  Try(1)

\* container.find_all("a", href=True): the positions, in document order, of
\* the anchors of the container that carry an href attribute, empty or not
FindAll(e) ==
    LET RECURSIVE From(_)
        From(k) ==
            IF k > Len(e.anchors) THEN <<>>
            ELSE SeqIf(~IsNone(e.anchors[k].href), k) \o From(k + 1)
    IN  From(1)

----------------------------------------------------------------------------
(* parse_html, one action for each way through a step of it *)

\* the anchors the loop of parse_html visits, as positions in the container
Visited == FindAll(doc.body[container])

\* the anchor the loop is at
Current == doc.body[container].anchors[Visited[idx]]

\* the image test is left out
HasImage_always(a) == TRUE

\* img = a.find("img"); bool(img)
HasImage(a) == a.img.present

\* any https link passes
OnOrigin_any_https(link) == StartsWith(link, HTTPS)

\* link.startswith(self.GOOGLE_ORIGIN)
OnOrigin(link) == StartsWith(link, GOOGLE_ORIGIN)

\* (a.get("aria-label") or img.get("alt") or "").strip()
NameOf(a) == Strip(Or(Or(a.aria, a.img.alt), EmptyStr))

\* the dictionary appended for anchor a
Artwork(a, image) ==
    [name |-> NameOf(a),
     extensions |-> Extensions(extract_year_from_node(a)),
     link |-> make_absolute_url(a.href).value,
     image |-> image]

\* the call find_best_thumbnail(a, img, html) of the current iteration
Thumbnail == find_best_thumbnail(Current, Current.img, html)

\* the log of the calls, with the call th of the current iteration added
Logged(th) ==
    Append(calls, [at |-> Visited[idx], image |-> th.image, tiers |-> th.tiers])

NO_CONTAINER == "No carousel container found in HTML."

\* lines 45-52 and 58: a container is found
ContainerFound ==
    /\ pc = "start"
    /\ LocateContainer(doc.body) # 0
    /\ container' = LocateContainer(doc.body)
    /\ idx' = 1
    /\ pc' = "loop"
    /\ UNCHANGED <<doc, artworks, origin, diag, calls,
                   url, vres, node, year, html, title, closest>>

\* lines 45-56: no selector matches
NoContainer ==
    /\ pc = "start"
    /\ LocateContainer(doc.body) = 0
    /\ container' = 0
    /\ diag' = Append(diag, NO_CONTAINER)
    /\ pc' = "done"
    /\ UNCHANGED <<doc, idx, artworks, origin, calls,
                   url, vres, node, year, html, title, closest>>

\* lines 60-62
SkipNoImage ==
    /\ pc = "loop" /\ idx <= Len(Visited)
    /\ ~HasImage(Current)
    /\ idx' = idx + 1
    /\ UNCHANGED <<pc, doc, container, artworks, origin, diag, calls,
                   url, vres, node, year, html, title, closest>>

\* lines 64-66
SkipNoName ==
    /\ pc = "loop" /\ idx <= Len(Visited)
    /\ HasImage(Current)
    /\ ~Truthy(NameOf(Current))
    /\ idx' = idx + 1
    /\ UNCHANGED <<pc, doc, container, artworks, origin, diag, calls,
                   url, vres, node, year, html, title, closest>>

\* lines 68-70: urljoin raises ValueError, which nothing catches
LinkRaises ==
    /\ pc = "loop" /\ idx <= Len(Visited)
    /\ HasImage(Current)
    /\ Truthy(NameOf(Current))
    /\ make_absolute_url(Current.href).raises
    /\ calls' = Logged(Thumbnail)
    /\ pc' = "raised"
    /\ UNCHANGED <<doc, container, idx, artworks, origin, diag,
                   url, vres, node, year, html, title, closest>>

\* lines 68-73
SkipOffOrigin ==
    /\ pc = "loop" /\ idx <= Len(Visited)
    /\ HasImage(Current)
    /\ Truthy(NameOf(Current))
    /\ ~make_absolute_url(Current.href).raises
    /\ ~OnOrigin(make_absolute_url(Current.href).value)
    /\ calls' = Logged(Thumbnail)
    /\ idx' = idx + 1
    /\ UNCHANGED <<pc, doc, container, artworks, origin, diag,
                   url, vres, node, year, html, title, closest>>

\* the dictionary is put at the front of the list
AppendArtwork_at_front ==
    /\ pc = "loop" /\ idx <= Len(Visited)
    /\ HasImage(Current)
    /\ Truthy(NameOf(Current))
    /\ ~make_absolute_url(Current.href).raises
    /\ OnOrigin(make_absolute_url(Current.href).value)
    /\ LET th == Thumbnail
       IN  /\ calls' = Logged(th)
           /\ artworks' = <<Artwork(Current, th.image)>> \o artworks
    /\ origin' = <<Visited[idx]>> \o origin
    /\ idx' = idx + 1
    /\ UNCHANGED <<pc, doc, container, diag,
                   url, vres, node, year, html, title, closest>>

\* lines 68-80
AppendArtwork ==
    /\ pc = "loop" /\ idx <= Len(Visited)
    /\ HasImage(Current)
    /\ Truthy(NameOf(Current))
    /\ ~make_absolute_url(Current.href).raises
    /\ OnOrigin(make_absolute_url(Current.href).value)
    /\ LET th == Thumbnail
       IN  /\ calls' = Logged(th)
           /\ artworks' = Append(artworks, Artwork(Current, th.image))
    /\ origin' = Append(origin, Visited[idx])
    /\ idx' = idx + 1
    /\ UNCHANGED <<pc, doc, container, diag,
                   url, vres, node, year, html, title, closest>>

\* line 82
ReturnArtworks ==
    /\ pc = "loop" /\ idx > Len(Visited)
    /\ pc' = "done"
    /\ UNCHANGED <<doc, container, idx, artworks, origin, diag, calls,
                   url, vres, node, year, html, title, closest>>

----------------------------------------------------------------------------
(* Inputs of parse_html *)

MaxAnchors == 2

SLASH_S == <<"/", "s">>
I1 == <<"i", "1">>

A_good ==
    Anchor(Lit(SLASH_S), Lit(IRIS), Lit(<<"1", "8", "8", "9">>),
           Img(Lit(IRIS), Jpeg(600), None))
A_empty_href ==
    Anchor(EmptyStr, None, EmptyStr,
           Img(Lit(ROSE), Str(PLACEHOLDER, 600), None))
A_no_href ==
    Anchor(None, Lit(IRIS), EmptyStr, Img(None, Jpeg(600), None))
A_no_img ==
    Anchor(Lit(SLASH_S), Lit(IRIS), Lit(<<"1", "8", "8", "9">>), NoImg)
A_off_origin ==
    Anchor(Lit(HTTPS \o <<"e", "v", "i", "l", ".", "c", "o", "m", "/">>),
           Lit(IRIS), EmptyStr, Img(None, None, Lit(I1)))
A_blank_name ==
    Anchor(Lit(SLASH_S), Lit(<<" ", " ">>), EmptyStr,
           Img(Lit(ROSE), Jpeg(600), None))
A_bad_href ==
    Anchor(Lit(<<"/", "/", "[">>), Lit(IRIS), EmptyStr, Img(None, None, None))
A_script ==
    Anchor(Lit(GOOGLE_ORIGIN \o SLASH_S), None, Lit(<<"2", "0", "0", "1">>),
           Img(Lit(<<" ">> \o ROSE \o <<" ">>),
               Str(<<" ">> \o DATA_IMAGE \o JPEG \o B64, 400), Lit(I1)))

AnchorSet ==
    { A_good, A_empty_href, A_no_href, A_no_img, A_off_origin, A_blank_name,
      A_bad_href, A_script }

Div(attrid, jscontroller, jsname) == Element("div", attrid, jscontroller, jsname, <<>>)

K_works == Div(Lit(VISUAL_ARTIST_WORKS), None, None)
K_artworks == Div(Lit(ARTWORKS), None, None)
K_carousel == Element("g-scrolling-carousel", None, None, None, <<>>)
K_jscontroller == Div(None, Lit(HPVVWB), None)
K_jsname == Div(None, None, Lit(GZQ3KE))
K_plain == Div(None, None, None)
K_other == Div(Lit(<<"b", "o", "o", "k", "s">>), Lit(GZQ3KE), Lit(HPVVWB))

\* the pages' elements, two to a page
DocShapes ==
    { <<K_plain, K_other>>, <<K_carousel, K_plain>>, <<K_artworks, K_works>> }

\* an inline script whose image data is escaped twice and long enough; one
\* whose data is longer than 500 characters escaped and 500 unescaped, with a
\* bare image after it
DocTails ==
    { <<>>,
      << Script(Str(DATA_IMAGE \o JPEG \o B64 \o <<"\\", "\\", "x", "3", "d">>, 600),
                Lit(<<"I", "1">>)) >>,
      << Script(Str(DATA_IMAGE \o JPEG \o B64
                      \o <<"\\", "x", "3", "d", "\\", "x", "3", "d">>, 475), Lit(I1)),
         Piece(10, Png(700), 2) >> }

WithAnchors(e, as) == [e EXCEPT !.anchors = as]

\* a page: two elements, at most MaxAnchors anchors between them, and a tail
Init ==
    /\ pc = "start"
    /\ \E sh \in DocShapes, l1 \in Words(AnchorSet, MaxAnchors), t \in DocTails :
          \E l2 \in Words(AnchorSet, MaxAnchors - Len(l1)) :
              doc = [body |-> <<WithAnchors(sh[1], l1), WithAnchors(sh[2], l2)>>,
                     tail |-> t]
    /\ html = Render(doc)
    /\ container = 0 /\ idx = 0 /\ artworks = <<>> /\ origin = <<>>
    /\ diag = <<>> /\ calls = <<>>
    /\ url = None /\ vres = FALSE /\ node = None /\ year = None
    /\ title = None /\ closest = None

Next ==
    \/ ContainerFound
    \/ NoContainer
    \/ SkipNoImage
    \/ SkipNoName
    \/ LinkRaises
    \/ SkipOffOrigin
    \/ AppendArtwork
    \/ ReturnArtworks

Spec == Init /\ [][Next]_vars

----------------------------------------------------------------------------
(* Inputs of the container selectors alone: every page of at most MaxElems *)
(* elements, without anchors.                                              *)

MaxElems == 3

ElemKinds ==
    { K_works, K_artworks, K_carousel, K_jscontroller, K_jsname, K_plain, K_other }

InitLocate ==
    /\ pc = "start"
    /\ doc \in { [body |-> b, tail |-> <<>>] : b \in Words(ElemKinds, MaxElems) }
    /\ html = Render(doc)
    /\ container = 0 /\ idx = 0 /\ artworks = <<>> /\ origin = <<>>
    /\ diag = <<>> /\ calls = <<>>
    /\ url = None /\ vres = FALSE /\ node = None /\ year = None
    /\ title = None /\ closest = None

NextLocate ==
    \/ ContainerFound
    \/ NoContainer
    \/ ReturnArtworks

SpecLocate == InitLocate /\ [][NextLocate]_vars

----------------------------------------------------------------------------
(* The claims about parse_html *)

Range(f) == { f[k] : k \in 1..Len(f) }

\* the anchors of the located container, and the one a record comes from
ContainerAnchors == doc.body[container].anchors
Source(j) == ContainerAnchors[origin[j]]

\* s is missing, empty or all whitespace
Blank(s) == IsNone(s) \/ \A k \in 1..StrLen(s) : CharAt(s, k) \in Whitespace

\* the label of an anchor: its aria-label when it has one that is not empty,
\* else the alt text of its image
Label(a) ==
    IF ~IsNone(a.aria) /\ StrLen(a.aria) > 0 THEN a.aria
    ELSE IF a.img.present THEN a.img.alt ELSE None

\* the text passes the validation rule of the thumbnail resolver
PassesValidation(u) ==
    /\ StartsWith(u, DATA_IMAGE)
    /\ ~StartsWith(u, PLACEHOLDER)
    /\ StrLen(u) > 500

\* anchor a has what a record needs: an href attribute, an image, a label
\* that is not blank and a link on the origin
Qualifies(a) ==
    /\ ~IsNone(a.href)
    /\ a.img.present
    /\ ~Blank(Label(a))
    /\ ~make_absolute_url(a.href).raises
    /\ StartsWith(make_absolute_url(a.href).value, GOOGLE_ORIGIN)

(* C1: every record has a non-empty name and a link that starts with       *)
(* https://www.google.com, and no anchor whose label is blank or whose     *)
(* resolved link is off that origin has a record.                          *)
C1_NameAndOrigin ==
    \A j \in 1..Len(artworks) :
        /\ StrLen(artworks[j].name) > 0
        /\ StartsWith(artworks[j].link, GOOGLE_ORIGIN)
        /\ ~Blank(Label(Source(j)))
        /\ StartsWith(make_absolute_url(Source(j).href).value, GOOGLE_ORIGIN)

\* a container with an off-origin anchor and a good anchor has been read to
\* its end, and the good anchor alone has a record
C1_Witness ==
    /\ pc = "done" /\ container # 0
    /\ ContainerAnchors = <<A_off_origin, A_good>>
    /\ Len(artworks) = 1 /\ Source(1) = A_good

\* no element of the page matches any container selector
NoSignatureMatches ==
    \A i \in 1..Len(doc.body) : \A k \in 1..6 : ~Selects(k, doc.body[i])

(* C6: when no container selector matches anything in the page, parse_html *)
(* returns the empty list after writing its diagnostic: it does not raise, *)
(* visits no anchor and resolves no thumbnail.                             *)
C6_NoContainerEmptyResult ==
    NoSignatureMatches =>
        /\ pc \in {"start", "done"}
        /\ pc = "done" =>
             /\ artworks = <<>>
             /\ diag = <<NO_CONTAINER>>
             /\ container = 0 /\ idx = 0
             /\ calls = <<>>

\* parse_html has returned from a page without a container whose first
\* element holds an anchor that would have made a record
C6_Witness ==
    /\ pc = "done" /\ NoSignatureMatches
    /\ doc.body[1].anchors = <<A_good>>
    /\ artworks = <<>>

\* the positions of the container's anchors that qualify, in document order
QualifyingPositions ==
    LET RECURSIVE From(_)
        From(k) ==
            IF k > Len(ContainerAnchors) THEN <<>>
            ELSE SeqIf(Qualifies(ContainerAnchors[k]), k) \o From(k + 1)
    IN  From(1)

(* C7: the records come in the document order of their anchors in the      *)
(* container, and nothing is sorted or removed: the list returned has one  *)
(* record for every qualifying anchor, two for two qualifying anchors that *)
(* are alike.                                                              *)
C7_DocumentOrder ==
    container # 0 =>
        /\ Len(origin) = Len(artworks)
        /\ \A j \in 1..Len(artworks) :
              /\ artworks[j].name = Strip(Label(Source(j)))
              /\ artworks[j].link = make_absolute_url(Source(j).href).value
        /\ \A j, k \in 1..Len(origin) : j < k => origin[j] < origin[k]
        /\ pc = "done" => origin = QualifyingPositions

\* two like anchors have made two like records
C7_Witness ==
    /\ pc = "done"
    /\ Len(artworks) = 2 /\ artworks[1] = artworks[2]
    /\ Source(1) = A_good

(* C8: a failure of one entry is local.  An anchor that fails on name or   *)
(* link loses its own record and the anchors after it are still visited:   *)
(* parse_html never ends by raising, and returns a record for every        *)
(* qualifying anchor; an anchor with a name and an on-origin link whose     *)
(* thumbnail fails at all three tiers has a record with image None.         *)
C8_EntryFailuresLocal ==
    /\ pc # "raised"
    /\ (pc = "done" /\ container # 0) =>
          /\ idx = Len(Visited) + 1
          /\ origin = QualifyingPositions
    /\ \A c \in Range(calls) :
          (Qualifies(ContainerAnchors[c.at]) /\ IsNone(c.image)) =>
              \E j \in 1..Len(artworks) : origin[j] = c.at /\ IsNone(artworks[j].image)

\* the part of C8 that the code keeps: a record is made whatever the
\* thumbnail resolver returns
C8_RecordWithoutImage ==
    \A c \in Range(calls) :
        (Qualifies(ContainerAnchors[c.at]) /\ IsNone(c.image)) =>
            \E j \in 1..Len(artworks) :
                /\ origin[j] = c.at /\ IsNone(artworks[j].image)
                /\ StrLen(artworks[j].name) > 0

(* C9: find_best_thumbnail returns the candidate of the first tier that    *)
(* yields a string passing validation, in the order src, inline script by  *)
(* the image's id, proximity, and None when none does.  A valid src is     *)
(* returned whatever the other tiers hold; the script tier is consulted    *)
(* only when the src fails and the id is not empty; the proximity tier     *)
(* only when the tiers before it produced nothing.  So the image of every  *)
(* record is None or passes validation.  The call examined in a state is   *)
(* the one made last: every call is the last one in the state it leads to. *)
C9_FirstTierWins ==
    /\ Len(calls) > 0 =>
          LET c == calls[Len(calls)]
              a == ContainerAnchors[c.at]
              src == Strip(Or(a.img.src, EmptyStr))
              id == Strip(Or(a.img.id, EmptyStr))
              byid == IF StrLen(id) > 0 THEN decode_thumbnail_from_script(html, id)
                      ELSE None
          IN  /\ IsNone(c.image) \/ PassesValidation(c.image)
              /\ c.tiers[1] = 1
              /\ PassesValidation(src) => c.image = src /\ c.tiers = <<1>>
              /\ (\E k \in 1..Len(c.tiers) : c.tiers[k] = 2) =
                    (~PassesValidation(src) /\ StrLen(id) > 0)
              /\ (\E k \in 1..Len(c.tiers) : c.tiers[k] = 3) =
                    (~PassesValidation(src) /\ IsNone(byid))
              /\ (~PassesValidation(src) /\ ~IsNone(byid)) =>
                    c.image = byid /\ PassesValidation(byid)
              /\ (~PassesValidation(src) /\ IsNone(byid)) =>
                    c.image = find_closest_data_image(html, Strip(Label(a)))
    /\ \A j \in 1..Len(artworks) :
          IsNone(artworks[j].image) \/ PassesValidation(artworks[j].image)

\* the src is too short, the inline script for the id unescapes to a text
\* too short, and the record takes the image the proximity tier finds
C9_Witness ==
    /\ Len(artworks) > 0 /\ Len(calls) > 0
    /\ Source(Len(artworks)) = A_script
    /\ calls[Len(calls)].tiers = <<1, 2, 3>>
    /\ artworks[Len(artworks)].image = Png(700)

(* C10 as written: only anchors with a non-empty href and an image         *)
(* descendant yield records; an anchor with no href, with an empty href or *)
(* without an image never does.                                            *)
C10_NonEmptyHrefAndImage ==
    \A j \in 1..Len(artworks) :
        /\ ~IsNone(Source(j).href) /\ StrLen(Source(j).href) > 0
        /\ Source(j).img.present

(* C10 as amended: the loop visits exactly the anchors of the container    *)
(* that carry an href attribute, empty or not, and only those of them with *)
(* an image descendant yield records; an anchor with no href attribute or  *)
(* without an image never does, and an anchor with an empty href resolves  *)
(* to the origin itself.                                                   *)
C10_HrefAttributeAndImage ==
    container # 0 =>
        /\ Range(Visited) = { k \in 1..Len(ContainerAnchors) :
                                ~IsNone(ContainerAnchors[k].href) }
        /\ \A j \in 1..Len(artworks) :
              /\ ~IsNone(Source(j).href)
              /\ Source(j).img.present
              /\ StrLen(Source(j).href) = 0 => artworks[j].link = Lit(GOOGLE_ORIGIN)

\* the container holds an anchor without href and an anchor with an empty
\* href, and the second alone has a record
C10_Witness ==
    /\ pc = "done" /\ container # 0
    /\ ContainerAnchors = <<A_no_href, A_empty_href>>
    /\ Len(artworks) = 1 /\ Source(1) = A_empty_href
    /\ artworks[1].link = Lit(GOOGLE_ORIGIN)

\* the elements of the page that the k-th selector matches
Hits(k) == { i \in 1..Len(doc.body) : Selects(k, doc.body[i]) }

(* C4: the container is the first match of the first selector, in the      *)
(* order of the chain, that matches any element: an element that only a    *)
(* later selector matches is chosen only when no earlier selector matches  *)
(* anything.  With an element whose data-attrid contains :works and        *)
(* another whose data-attrid contains artworks, the :works element is the  *)
(* container, whichever comes first.                                       *)
C4_SelectorPriority ==
    pc # "start" =>
        /\ (container = 0) = (\A k \in 1..6 : Hits(k) = {})
        /\ container # 0 =>
              \E k \in 1..6 :
                  /\ container \in Hits(k)
                  /\ \A i \in Hits(k) : container <= i
                  /\ \A j \in 1..(k - 1) : Hits(j) = {}
        /\ (Hits(1) # {} /\ Hits(3) # {}) => container \in Hits(1)

\* the artworks element comes first and the :works element after it is the
\* container
C4_Witness ==
    /\ pc = "loop"
    /\ Len(doc.body) >= 2
    /\ 1 \in Hits(3) /\ 1 \notin Hits(1)
    /\ container > 1 /\ container \in Hits(1)

====
